---- MODULE Spec2Model ----
(***************************************************************************)
(* Model of src/app.py, the Safebox notification form: message assembly    *)
(* (build_final_message), the Drive upload (upload_file_to_drive), the     *)
(* Sheets row append (append_notification_row) and the three Streamlit     *)
(* screens (landing, instant, scheduling).                                 *)
(*                                                                         *)
(* A Python string is a sequence of atoms (each atom a TLA+ string that    *)
(* stands for a piece of text that is never split); concatenation is \o    *)
(* and `a in b` is contiguous-subsequence search.  One action is one run   *)
(* of the script: the whole page handler, all API calls included.  Each    *)
(* API call (.execute()) either returns or raises; which call raises is an *)
(* input of the action.                                                    *)
(***************************************************************************)
EXTENDS Integers, Sequences, FiniteSets, TLC

VARIABLES
    page,      \* st.session_state.page
    today,     \* datetime.date.today(), as a day number
    sheet,     \* the rows of the 'Notification Manager' sheet, in order
    origin,    \* per row this session appended: the form that did and the day it did
    drive,     \* the files on Drive, a file's id is its index
    form,      \* the widget values of the session's form
    submitted, \* the last run: the screen whose form was submitted and its date
    shown,     \* the st.error / st.success messages of the last run
    uncaught,  \* the last run ended with an exception that left the page handler
    calls,     \* the API calls of the last run, in order
    services,  \* st.cache_resource: per getter, the handles built so far in this process
    cred_json, \* os.getenv("GOOGLE_CREDENTIALS_JSON"): whether it is set, and its text
    arg,       \* SpecMsg: the arguments of build_final_message
    ret        \* SpecMsg: what the call returned

vars == <<page, today, sheet, origin, drive, form, submitted, shown, uncaught, calls, services,
          cred_json, arg, ret, cred_json>>

(***************************************************************************)
(* Bounds                                                                  *)
(***************************************************************************)
\* attachments per submission
MaxFiles == 2
\* atoms in a free text
MaxTextLen == 2
\* rows one session appends
MaxRows == 1
\* files one session creates on Drive
MaxDriveFiles == 2
\* days the session lasts
MaxDay == 2

(***************************************************************************)
(* Strings                                                                 *)
(***************************************************************************)
Str(a) == <<a>>

\* Python's `sub in s`
Contains(s, sub) ==
    \E i \in 0..(Len(s) - Len(sub)) : SubSeq(s, i + 1, i + Len(sub)) = sub

\* Python's s.startswith(pre)
StartsWith(s, pre) == Len(s) >= Len(pre) /\ SubSeq(s, 1, Len(pre)) = pre

(***************************************************************************)
(* base64.b64encode(img_bytes).decode()                                    *)
(***************************************************************************)
B64Alphabet ==
    << "A","B","C","D","E","F","G","H","I","J","K","L","M","N","O","P",
       "Q","R","S","T","U","V","W","X","Y","Z","a","b","c","d","e","f",
       "g","h","i","j","k","l","m","n","o","p","q","r","s","t","u","v",
       "w","x","y","z","0","1","2","3","4","5","6","7","8","9","+","/" >>

B64Char(i) == B64Alphabet[i + 1]

RECURSIVE B64Encode(_)
B64Encode(b) ==
    IF Len(b) = 0 THEN <<>>
    ELSE IF Len(b) = 1 THEN
        << B64Char(b[1] \div 4), B64Char((b[1] % 4) * 16), "=", "=" >>
    ELSE IF Len(b) = 2 THEN
        << B64Char(b[1] \div 4), B64Char((b[1] % 4) * 16 + b[2] \div 16),
           B64Char((b[2] % 16) * 4), "=" >>
    ELSE
        << B64Char(b[1] \div 4), B64Char((b[1] % 4) * 16 + b[2] \div 16),
           B64Char((b[2] % 16) * 4 + b[3] \div 64), B64Char(b[3] % 64) >>
        \o B64Encode(SubSeq(b, 4, Len(b)))

(***************************************************************************)
(* Uploaded files: name, MIME type (file.type) and bytes (file.getvalue()) *)
(***************************************************************************)
Logo   == [name |-> "logo.png",   type |-> <<"image", "/", "png">>,       value |-> <<137, 80, 78, 71>>]
Photo  == [name |-> "photo.jpg",  type |-> <<"image", "/", "jpeg">>,      value |-> <<255, 216>>]
Report == [name |-> "report.pdf", type |-> <<"application", "/", "pdf">>, value |-> <<37, 80, 68>>]
Notes  == [name |-> "notes.txt",  type |-> <<"text", "/", "plain">>,      value |-> <<104>>]

UploadedFile == {Logo, Photo, Report, Notes}

\* text files are taken for images too
IsImageOrText(file) ==
    StartsWith(file.type, <<"image", "/">>) \/ StartsWith(file.type, <<"text", "/">>)

\* file.type.startswith("image/")
IsImage(file) == StartsWith(file.type, <<"image", "/">>)

RECURSIVE SeqsUpTo(_, _)
SeqsUpTo(S, n) ==
    IF n = 0 THEN {<<>>}
    ELSE LET shorter == SeqsUpTo(S, n - 1)
         IN  shorter \cup {Append(s, x) : s \in {t \in shorter : Len(t) = n - 1}, x \in S}

FileLists == SeqsUpTo(UploadedFile, MaxFiles)

\* attachment_position: the radio's value, or None
Positions == {"Top", "Bottom", "None"}

ImagesOf(files) == SelectSeq(files, IsImage)
NonImagesOf(files) == SelectSeq(files, LAMBDA f : ~IsImage(f))

(***************************************************************************)
(* Google Drive: upload_file_to_drive                                      *)
(***************************************************************************)
\* no handle has been built yet in a new process
NoServices == [sheets |-> 0, drive |-> 0]

\* the handle is built anew at every call
BuildDriveServiceEachCall(built) == built + 1

\* @st.cache_resource get_drive_service: the body runs at the first call of the
\* process and its handle is kept.  built is the number of handles built so
\* far; the result is that number after the call, which names the handle the
\* call returns (handles are numbered in the order they are built)
get_drive_service(built) == IF built = 0 THEN 1 ELSE built

\* a call made through a handle; via is the handle
DriveCall(drive_service, api, file, id, ok) ==
    [api |-> api, file |-> file.name, id |-> id, ok |-> ok, via |-> drive_service]

\* the webViewLink Drive reports for the file with this id
WebViewLink(id) == <<"https://drive.google.com/file/d/", ToString(id), "/view">>

\* a link is returned although the permission call or the link lookup raised
UploadSwallowingErrors(built, drv, file, failStep) ==
    LET drive_service == get_drive_service(built)
        id == Len(drv) + 1
        created == Append(drv, [name |-> file.name, shared |-> FALSE])
    IN  IF failStep = 1 THEN
            [service |-> drive_service, raised |-> TRUE, link |-> <<>>, drive |-> drv,
             calls |-> <<DriveCall(drive_service, "files.create", file, 0, FALSE)>>]
        ELSE
            [service |-> drive_service, raised |-> FALSE, link |-> WebViewLink(id),
             drive |-> IF failStep = 2 THEN created ELSE [created EXCEPT ![id].shared = TRUE],
             calls |-> <<DriveCall(drive_service, "files.create", file, id, TRUE),
                         DriveCall(drive_service, "permissions.create", file, id, failStep # 2),
                         DriveCall(drive_service, "files.get", file, id, failStep # 3)>>]

\* a failed files().create is tried a second time
UploadRetryingCreate(built, drv, file, failStep) ==
    LET drive_service == get_drive_service(built)
        id == Len(drv) + 1
        created == Append(drv, [name |-> file.name, shared |-> FALSE])
        public == [created EXCEPT ![id].shared = TRUE]
        retried == IF failStep = 1 THEN <<DriveCall(drive_service, "files.create", file, 0, FALSE)>> ELSE <<>>
    IN  IF failStep = 2 THEN
            [service |-> drive_service, raised |-> TRUE, link |-> <<>>, drive |-> created,
             calls |-> <<DriveCall(drive_service, "files.create", file, id, TRUE),
                         DriveCall(drive_service, "permissions.create", file, id, FALSE)>>]
        ELSE IF failStep = 3 THEN
            [service |-> drive_service, raised |-> TRUE, link |-> <<>>, drive |-> public,
             calls |-> <<DriveCall(drive_service, "files.create", file, id, TRUE),
                         DriveCall(drive_service, "permissions.create", file, id, TRUE),
                         DriveCall(drive_service, "files.get", file, id, FALSE)>>]
        ELSE
            [service |-> drive_service, raised |-> FALSE, link |-> WebViewLink(id), drive |-> public,
             calls |-> retried \o <<DriveCall(drive_service, "files.create", file, id, TRUE),
                                    DriveCall(drive_service, "permissions.create", file, id, TRUE),
                                    DriveCall(drive_service, "files.get", file, id, TRUE)>>]

\* the link is fetched before the permission is set
UploadLinkBeforePermission(built, drv, file, failStep) ==
    LET drive_service == get_drive_service(built)
        id == Len(drv) + 1
        created == Append(drv, [name |-> file.name, shared |-> FALSE])
        public == [created EXCEPT ![id].shared = TRUE]
    IN  IF failStep = 1 THEN
            [service |-> drive_service, raised |-> TRUE, link |-> <<>>, drive |-> drv,
             calls |-> <<DriveCall(drive_service, "files.create", file, 0, FALSE)>>]
        ELSE IF failStep = 2 THEN
            [service |-> drive_service, raised |-> TRUE, link |-> <<>>, drive |-> created,
             calls |-> <<DriveCall(drive_service, "files.create", file, id, TRUE),
                         DriveCall(drive_service, "files.get", file, id, FALSE)>>]
        ELSE
            [service |-> drive_service, raised |-> failStep = 3, link |-> IF failStep = 3 THEN <<>> ELSE WebViewLink(id),
             drive |-> IF failStep = 3 THEN created ELSE public,
             calls |-> <<DriveCall(drive_service, "files.create", file, id, TRUE),
                         DriveCall(drive_service, "files.get", file, id, TRUE),
                         DriveCall(drive_service, "permissions.create", file, id, failStep # 3)>>]

\* the permission call changes nothing
PermissionsCreateNothing(drv, id) == drv

\* a new file is readable by anyone from the start
FilesCreatePublic(drv, file) == Append(drv, [name |-> file.name, shared |-> TRUE])

\* files().create(...).execute(): the new file is private, its id is returned
FilesCreate(drv, file) == Append(drv, [name |-> file.name, shared |-> FALSE])

\* permissions().create(fileId, {'type': 'anyone', 'role': 'reader'}).execute()
PermissionsCreate(drv, id) == [drv EXCEPT ![id].shared = TRUE]

\* failStep: 0 when every call returns, else the call that raises
\* (1 files.create, 2 permissions.create, 3 files.get)
upload_file_to_drive(built, drv, file, failStep) ==
    LET drive_service == get_drive_service(built)
        id == Len(drv) + 1
        created == FilesCreate(drv, file)
        public == PermissionsCreate(created, id)
    IN  IF failStep = 1 THEN
            [service |-> drive_service, raised |-> TRUE, link |-> <<>>, drive |-> drv,
             calls |-> <<DriveCall(drive_service, "files.create", file, 0, FALSE)>>]
        ELSE IF failStep = 2 THEN
            [service |-> drive_service, raised |-> TRUE, link |-> <<>>, drive |-> created,
             calls |-> <<DriveCall(drive_service, "files.create", file, id, TRUE),
                         DriveCall(drive_service, "permissions.create", file, id, FALSE)>>]
        ELSE IF failStep = 3 THEN
            [service |-> drive_service, raised |-> TRUE, link |-> <<>>, drive |-> public,
             calls |-> <<DriveCall(drive_service, "files.create", file, id, TRUE),
                         DriveCall(drive_service, "permissions.create", file, id, TRUE),
                         DriveCall(drive_service, "files.get", file, id, FALSE)>>]
        ELSE
            [service |-> drive_service, raised |-> FALSE, link |-> WebViewLink(id), drive |-> public,
             calls |-> <<DriveCall(drive_service, "files.create", file, id, TRUE),
                         DriveCall(drive_service, "permissions.create", file, id, TRUE),
                         DriveCall(drive_service, "files.get", file, id, TRUE)>>]

(***************************************************************************)
(* build_final_message                                                     *)
(***************************************************************************)
POpen == "<p style=\"text-align: justify; margin: 0;\">"
PClose == "</p>"
CenterOpen == "<div style='text-align: center;'>"
LinksOpen == "<div style='text-align: left; margin-top: 10px;'>"
SigOpen == "<div style='text-align: left;'>"
DivClose == "</div>"
BestRegards == "Best regards"
SigTail == ",<br>Peace Ekeinde<br>Safebox Technologies"

Signature == <<SigOpen, BestRegards, SigTail, DivClose>>

body_html(text) == <<POpen>> \o text \o <<PClose>>

ImgOpen == "<img src=\"data:"
AOpen == "<a href=\""

ImgElement(file) ==
    <<ImgOpen>> \o file.type \o <<";base64,">> \o B64Encode(file.value)
        \o <<"\" style=\"max-width:100%; margin-bottom:10px;\"><br>">>

LinkElement(link, file) ==
    <<AOpen>> \o link \o <<"\" target=\"_blank\">Download ", file.name, "</a><br>">>

\* the Drive calls made so far in this call of build_final_message
DriveCallsMade(acc) == Len(acc.calls)

\* the loop goes on with the next file after an upload has raised
RECURSIVE AttachLoopCarryOn(_, _, _, _)
AttachLoopCarryOn(files, i, acc, failAt) ==
    IF i > Len(files) THEN acc
    ELSE LET file == files[i] IN
         IF IsImage(file) THEN
            AttachLoopCarryOn(files, i + 1,
                              [acc EXCEPT !.images_html = @ \o ImgElement(file)], failAt)
         ELSE
            LET made == DriveCallsMade(acc)
                failStep == IF failAt \in (made + 1)..(made + 3) THEN failAt - made ELSE 0
                up == upload_file_to_drive(acc.service, acc.drive, file, failStep)
            IN  AttachLoopCarryOn(files, i + 1,
                                  [images_html |-> acc.images_html,
                                   non_image_html |->
                                       IF up.raised THEN acc.non_image_html
                                       ELSE acc.non_image_html \o LinkElement(up.link, file),
                                   service |-> up.service,
                                   drive |-> up.drive,
                                   calls |-> acc.calls \o up.calls,
                                   raised |-> acc.raised \/ up.raised], failAt)

\* the loop `for file in uploaded_files`, from the i-th file on; failAt is the
\* Drive call of this submission that raises (0: none)
RECURSIVE AttachLoop(_, _, _, _)
AttachLoop(files, i, acc, failAt) ==
    IF i > Len(files) \/ acc.raised THEN acc
    ELSE LET file == files[i] IN
         IF IsImage(file) THEN
            AttachLoop(files, i + 1,
                       [acc EXCEPT !.images_html = @ \o ImgElement(file)], failAt)
         ELSE
            LET made == DriveCallsMade(acc)
                failStep == IF failAt \in (made + 1)..(made + 3) THEN failAt - made ELSE 0
                up == upload_file_to_drive(acc.service, acc.drive, file, failStep)
            IN  AttachLoop(files, i + 1,
                           [images_html |-> acc.images_html,
                            non_image_html |->
                                IF up.raised THEN acc.non_image_html
                                ELSE acc.non_image_html \o LinkElement(up.link, file),
                            service |-> up.service,
                            drive |-> up.drive,
                            calls |-> acc.calls \o up.calls,
                            raised |-> up.raised], failAt)

\* the images are placed only for the two values of the radio
PlaceImagesOnlyWhenChosen(images_html, body, attachment_position) ==
    IF images_html # <<>> /\ attachment_position \in {"Top", "Bottom"} THEN
        IF attachment_position = "Top"
        THEN <<CenterOpen>> \o images_html \o <<DivClose>> \o body
        ELSE body \o <<CenterOpen>> \o images_html \o <<DivClose>>
    ELSE body

\* the images always go below the text
PlaceImagesBelow(images_html, body, attachment_position) ==
    IF images_html # <<>> THEN body \o <<CenterOpen>> \o images_html \o <<DivClose>> ELSE body

PlaceImages(images_html, body, attachment_position) ==
    IF images_html # <<>> THEN
        IF attachment_position = "Top"
        THEN <<CenterOpen>> \o images_html \o <<DivClose>> \o body
        ELSE body \o <<CenterOpen>> \o images_html \o <<DivClose>>
    ELSE body

LinkBlock(non_image_html) ==
    IF non_image_html # <<>> THEN <<LinksOpen>> \o non_image_html \o <<DivClose>> ELSE <<>>

\* the signature is left out only when the text carries the whole block
NeedsSignatureUnlessWhole(text) == ~Contains(text, Signature)

\* the test ignores case
NeedsSignatureAnyCase(text) ==
    ~(Contains(text, <<BestRegards>>) \/ Contains(text, <<"best regards">>))

\* "Best regards" not in text
NeedsSignature(text) == ~Contains(text, <<BestRegards>>)

ClosingSignature(text) == IF NeedsSignature(text) THEN Signature ELSE <<>>

\* the links are placed with the images
AssembleLinksWithImages(text, images_html, non_image_html, attachment_position) ==
    PlaceImages(images_html \o LinkBlock(non_image_html), body_html(text), attachment_position)
        \o ClosingSignature(text)

\* the signature is added before the link block
AssembleSignatureBeforeLinks(text, images_html, non_image_html, attachment_position) ==
    PlaceImages(images_html, body_html(text), attachment_position)
        \o ClosingSignature(text)
        \o LinkBlock(non_image_html)

\* final_message, from the two blocks the loop has built
Assemble(text, images_html, non_image_html, attachment_position) ==
    PlaceImages(images_html, body_html(text), attachment_position)
        \o LinkBlock(non_image_html)
        \o ClosingSignature(text)

\* the loop runs over the attachments from the last to the first
BuildFromLastToFirst(text, uploaded_files, attachment_position, built, drv, failAt) ==
    LET n == Len(uploaded_files)
        acc == AttachLoop([i \in 1..n |-> uploaded_files[n + 1 - i]], 1,
                          [images_html |-> <<>>, non_image_html |-> <<>>, service |-> built,
                           drive |-> drv, calls |-> <<>>, raised |-> FALSE], failAt)
    IN  [raised |-> acc.raised,
         msg |-> IF acc.raised THEN <<>>
                 ELSE Assemble(text, acc.images_html, acc.non_image_html, attachment_position),
         service |-> acc.service,
         drive |-> acc.drive,
         calls |-> acc.calls]

\* raised: a Drive call raised and the function returned nothing
build_final_message(text, uploaded_files, attachment_position, built, drv, failAt) ==
    LET acc == AttachLoop(uploaded_files, 1,
                          [images_html |-> <<>>, non_image_html |-> <<>>, service |-> built,
                           drive |-> drv, calls |-> <<>>, raised |-> FALSE], failAt)
    IN  [raised |-> acc.raised,
         msg |-> IF acc.raised THEN <<>>
                 ELSE Assemble(text, acc.images_html, acc.non_image_html, attachment_position),
         service |-> acc.service,
         drive |-> acc.drive,
         calls |-> acc.calls]

\* the Drive calls build_final_message makes when none raises
NumDriveCalls(files) == 3 * Len(NonImagesOf(files))

(***************************************************************************)
(* Dates: datetime.date values are day numbers (ordinals), compared as     *)
(* such; the calendar runs over a year's end.                              *)
(***************************************************************************)
DateOf(n) ==
    IF n <= 2 THEN [year |-> 2025, month |-> 12, day |-> 29 + n]
    ELSE [year |-> 2026, month |-> 1, day |-> n - 2]

Digit(n) == ToString(n % 10)

\* notification_date.strftime("%Y-%m-%d")
strftime(n) ==
    LET d == DateOf(n)
    IN  << Digit(d.year \div 1000), Digit(d.year \div 100), Digit(d.year \div 10), Digit(d.year),
           "-", Digit(d.month \div 10), Digit(d.month),
           "-", Digit(d.day \div 10), Digit(d.day) >>

(***************************************************************************)
(* The sheet and the forms                                                 *)
(***************************************************************************)
RECIPIENTS_OPTIONS == <<"Employee Master Data", "Zummey", "SafeBox Energy", "Admin Master Data">>

\* st.text_input("Subject")
Subjects == {Str("Outage")}

\* st.text_area("Notification Message")
FormTexts == {Str("Hello"), <<"Hello", BestRegards>>}

\* st.file_uploader(..., accept_multiple_files=True)
FormUploads == {<<>>, <<Logo>>, <<Report>>, <<Report, Logo, Notes>>}

\* st.date_input(..., value=datetime.date.today()): the day before, the day or the day after
FormDates(day) == (day - 1)..(day + 1)

\* the shared sheet before the session: its header row (the data format of
\* append_notification_row)
PriorRows ==
    << << Str("Notification Type"), Str("Recipient Sheet"), Str("Notification Message"),
          Str("Notification Date"), Str("Prompt") >> >>

\* the rows this session has appended
Appended(rows) == SubSeq(rows, Len(PriorRows) + 1, Len(rows))

\* attachment_position: None unless an image is attached, then the radio's value
RadioChoices(uploaded_files) ==
    IF ImagesOf(uploaded_files) # <<>> THEN {"Top", "Bottom"} ELSE {"None"}

\* the widget values a session can hold.  Streamlit keeps widget values across
\* runs: a session starts with any of them and submits them unchanged, only the
\* date is picked anew at each submission
Forms ==
    {f \in [subject : Subjects, recipient : {RECIPIENTS_OPTIONS[i] : i \in DOMAIN RECIPIENTS_OPTIONS},
            files : FormUploads, pos : Positions, text : FormTexts] :
        f.pos \in RadioChoices(f.files)}

NoForm == [subject |-> <<>>, recipient |-> "", files |-> <<>>, pos |-> "None", text |-> <<>>]

NotSubmitted == [screen |-> "none", date |-> 0]

Message(level, about) == [level |-> level, about |-> about]

\* @st.cache_resource get_sheets_service, as get_drive_service
get_sheets_service(built) == IF built = 0 THEN 1 ELSE built

SheetsCall(service, ok) ==
    [api |-> "values.append", file |-> "", id |-> 0, ok |-> ok, via |-> service]

\* the row is written above the rows of the sheet
InsertOnTop(rows, data) == <<data>> \o rows

\* service.spreadsheets().values().append(..., body={'values': [data]}).execute()
append_notification_row(rows, data) == Append(rows, data)

NoArg == [text |-> <<>>, files |-> <<>>, pos |-> "None"]
NoRet == [called |-> FALSE, raised |-> FALSE, msg |-> <<>>]

\* the variable's text when it holds a service-account key
ValidCredentials == [set |-> TRUE, value |-> Str("{service account key}")]

\* what os.getenv can return: None (not set), "" or the key
CredValues == {[set |-> FALSE, value |-> <<>>], [set |-> TRUE, value |-> <<>>], ValidCredentials}

Init ==
    /\ page = "landing"
    /\ today = 1
    /\ sheet = PriorRows
    /\ origin = <<>>
    /\ drive = <<>>
    /\ form \in Forms
    /\ submitted = NotSubmitted
    /\ shown = <<>>
    /\ uncaught = FALSE
    /\ calls = <<>>
    /\ services = NoServices
    /\ cred_json \in CredValues
    /\ arg = NoArg
    /\ ret = NoRet

\* subject and recipient group change places
RowDataSubjectSecond(notification_type, recipients_sheet, final_message, date_str) ==
    <<Str(recipients_sheet), notification_type, final_message, date_str, Str("send")>>

\* the date and the message change places
RowDataDateFirst(notification_type, recipients_sheet, final_message, date_str) ==
    <<notification_type, Str(recipients_sheet), date_str, final_message, Str("send")>>

\* row_data
RowData(notification_type, recipients_sheet, final_message, date_str) ==
    <<notification_type, Str(recipients_sheet), final_message, date_str, Str("send")>>

\* today's date passes
DateRejectedBeforeToday(notification_date, day) == notification_date < day

\* the comparison the other way round
DateRejectedFromToday(notification_date, day) == day <= notification_date

\* `if notification_date <= today`
DateRejected(notification_date, day) == notification_date <= day

\* st.success stands after the try/except, not inside the try
SendSuccessAfterExcept(screen, date, failAt, appendFails, done) ==
    LET built == build_final_message(form.text, form.files, form.pos, services.drive, drive, failAt)
        row_data == RowData(form.subject, form.recipient, built.msg, strftime(date))
        service == get_sheets_service(services.sheets)
    IN  /\ Len(built.drive) <= MaxDriveFiles
        /\ drive' = built.drive
        /\ services' = [drive |-> built.service,
                        sheets |-> IF built.raised THEN services.sheets ELSE service]
        /\ IF built.raised THEN
              /\ uncaught' = TRUE
              /\ shown' = <<>>
              /\ calls' = built.calls
              /\ UNCHANGED <<sheet, origin>>
           ELSE IF appendFails THEN
              /\ uncaught' = FALSE
              /\ shown' = <<Message("error", "append"), Message("success", done)>>
              /\ calls' = Append(built.calls, SheetsCall(service, FALSE))
              /\ UNCHANGED <<sheet, origin>>
           ELSE
              /\ Len(origin) < MaxRows
              /\ uncaught' = FALSE
              /\ shown' = <<Message("success", done)>>
              /\ calls' = Append(built.calls, SheetsCall(service, TRUE))
              /\ sheet' = append_notification_row(sheet, row_data)
              /\ origin' = Append(origin, [screen |-> screen, day |-> today])

\* the part of a submission after the date check, common to both forms:
\* build_final_message, then row_data, then the append inside try/except
Send(screen, date, failAt, appendFails, done) ==
    LET built == build_final_message(form.text, form.files, form.pos, services.drive, drive, failAt)
        row_data == RowData(form.subject, form.recipient, built.msg, strftime(date))
        service == get_sheets_service(services.sheets)
    IN  /\ Len(built.drive) <= MaxDriveFiles
        /\ drive' = built.drive
        /\ services' = [drive |-> built.service,
                        sheets |-> IF built.raised THEN services.sheets ELSE service]
        /\ IF built.raised THEN
              /\ uncaught' = TRUE
              /\ shown' = <<>>
              /\ calls' = built.calls
              /\ UNCHANGED <<sheet, origin>>
           ELSE IF appendFails THEN
              /\ uncaught' = FALSE
              /\ shown' = <<Message("error", "append")>>
              /\ calls' = Append(built.calls, SheetsCall(service, FALSE))
              /\ UNCHANGED <<sheet, origin>>
           ELSE
              /\ Len(origin) < MaxRows
              /\ uncaught' = FALSE
              /\ shown' = <<Message("success", done)>>
              /\ calls' = Append(built.calls, SheetsCall(service, TRUE))
              /\ sheet' = append_notification_row(sheet, row_data)
              /\ origin' = Append(origin, [screen |-> screen, day |-> today])

\* main: the page functions one run of the script calls for a page value
main(p) ==
    IF p = "landing" THEN <<"landing_page">>
    ELSE IF p = "instant" THEN <<"instant_messaging_page">>
    ELSE IF p = "scheduling" THEN <<"scheduling_message_page">>
    ELSE <<>>

\* only a variable that is not set counts as missing
CredentialsUnset(c) == ~c.set

\* `not cred_json`: None and the empty string are both false
CredentialsMissing(c) == ~c.set \/ c.value = <<>>

\* the page functions one run of the whole script calls: none when st.stop()
\* ends the run at the credential check, else what main calls
Rendered == IF CredentialsMissing(cred_json) THEN <<>> ELSE main(page)

\* a run that ends at the credential check: st.error, then st.stop()
StoppedRun ==
    /\ CredentialsMissing(cred_json)
    /\ shown' = <<Message("error", "credentials")>>
    /\ submitted' = NotSubmitted
    /\ uncaught' = FALSE
    /\ calls' = <<>>
    /\ UNCHANGED <<page, today, sheet, origin, drive, services, form, arg, ret, cred_json>>

\* the instant form with the date check of the scheduling form
InstantSubmitChecked ==
    /\ Rendered = <<"instant_messaging_page">>
    /\ \E date \in FormDates(today), failAt \in 0..NumDriveCalls(form.files), appendFails \in BOOLEAN :
          /\ submitted' = [screen |-> "instant", date |-> date]
          /\ IF DateRejected(date, today) THEN
                /\ shown' = <<Message("error", "date")>>
                /\ uncaught' = FALSE
                /\ calls' = <<>>
                /\ UNCHANGED <<sheet, origin, drive, services>>
             ELSE
                Send("instant", date, failAt, appendFails, "sent")
    /\ UNCHANGED <<page, today, form, arg, ret, cred_json>>

\* instant_messaging_page, "Send Notification" pressed
InstantSubmit ==
    /\ Rendered = <<"instant_messaging_page">>
    /\ \E date \in FormDates(today), failAt \in 0..NumDriveCalls(form.files), appendFails \in BOOLEAN :
          /\ submitted' = [screen |-> "instant", date |-> date]
          /\ Send("instant", date, failAt, appendFails, "sent")
    /\ UNCHANGED <<page, today, form, arg, ret, cred_json>>

\* the scheduling form returns to the landing screen once submitted
SchedulingSubmitThenHome ==
    /\ Rendered = <<"scheduling_message_page">>
    /\ \E date \in FormDates(today), failAt \in 0..NumDriveCalls(form.files), appendFails \in BOOLEAN :
          /\ submitted' = [screen |-> "scheduling", date |-> date]
          /\ IF DateRejected(date, today) THEN
                /\ shown' = <<Message("error", "date")>>
                /\ uncaught' = FALSE
                /\ calls' = <<>>
                /\ UNCHANGED <<sheet, origin, drive, services>>
             ELSE
                Send("scheduling", date, failAt, appendFails, "scheduled")
    /\ page' = "landing"
    /\ UNCHANGED <<today, form, arg, ret, cred_json>>

\* scheduling_message_page, "Send Notification" pressed
SchedulingSubmit ==
    /\ Rendered = <<"scheduling_message_page">>
    /\ \E date \in FormDates(today), failAt \in 0..NumDriveCalls(form.files), appendFails \in BOOLEAN :
          /\ submitted' = [screen |-> "scheduling", date |-> date]
          /\ IF DateRejected(date, today) THEN
                /\ shown' = <<Message("error", "date")>>
                /\ uncaught' = FALSE
                /\ calls' = <<>>
                /\ UNCHANGED <<sheet, origin, drive, services>>
             ELSE
                Send("scheduling", date, failAt, appendFails, "scheduled")
    /\ UNCHANGED <<page, today, form, arg, ret, cred_json>>

\* the scheduling button stores a page name main does not know
NavigateMisspelt(to) ==
    /\ page' = IF to = "scheduling" THEN "schedule" ELSE to
    /\ submitted' = NotSubmitted
    /\ shown' = <<>>
    /\ uncaught' = FALSE
    /\ calls' = <<>>
    /\ UNCHANGED <<today, sheet, origin, drive, services, form, arg, ret, cred_json>>

\* a run that renders a screen and neither submits nor uploads
Navigate(to) ==
    /\ page' = to
    /\ submitted' = NotSubmitted
    /\ shown' = <<>>
    /\ uncaught' = FALSE
    /\ calls' = <<>>
    /\ UNCHANGED <<today, sheet, origin, drive, services, form, arg, ret, cred_json>>

\* landing_page, "Instant Messaging" pressed
OpenInstant == Rendered = <<"landing_page">> /\ Navigate("instant")

\* landing_page, "Scheduling Message" pressed
OpenScheduling == Rendered = <<"landing_page">> /\ Navigate("scheduling")

\* "Go Back" on the scheduling form opens the instant form
GoBackViaInstant ==
    /\ Rendered \in {<<"instant_messaging_page">>, <<"scheduling_message_page">>}
    /\ Navigate(IF page = "scheduling" THEN "instant" ELSE "landing")

\* "Go Back" pressed on either form
GoBack ==
    /\ Rendered \in {<<"instant_messaging_page">>, <<"scheduling_message_page">>}
    /\ Navigate("landing")

\* midnight passes
NextDay ==
    /\ today < MaxDay
    /\ today' = today + 1
    /\ UNCHANGED <<page, sheet, origin, drive, services, form, submitted, shown, uncaught, calls,
                   arg, ret, cred_json>>

Next ==
    \/ OpenInstant
    \/ OpenScheduling
    \/ GoBack
    \/ InstantSubmit
    \/ SchedulingSubmit
    \/ NextDay
    \/ StoppedRun

Spec == Init /\ [][Next]_vars

(***************************************************************************)
(* build_final_message on its own: any text, any attachment list and any   *)
(* placement, called once on an empty Drive                                *)
(***************************************************************************)
TextAtoms == {"Hello", BestRegards, "best regards"}

Texts == SeqsUpTo(TextAtoms, MaxTextLen) \cup {Signature, Signature \o Signature}

InitMsg ==
    /\ arg \in [text : Texts, files : FileLists, pos : Positions]
    /\ ret = NoRet
    /\ page = "landing"
    /\ today = 1
    /\ sheet = PriorRows
    /\ origin = <<>>
    /\ drive = <<>>
    /\ form = NoForm
    /\ submitted = NotSubmitted
    /\ shown = <<>>
    /\ uncaught = FALSE
    /\ calls = <<>>
    /\ services = NoServices
    /\ cred_json = ValidCredentials

CallBuild ==
    /\ ~ret.called
    /\ \E failAt \in 0..NumDriveCalls(arg.files) :
          LET built == build_final_message(arg.text, arg.files, arg.pos, services.drive, drive, failAt)
          IN  /\ ret' = [called |-> TRUE, raised |-> built.raised, msg |-> built.msg]
              /\ drive' = built.drive
              /\ calls' = built.calls
              /\ services' = [services EXCEPT !.drive = built.service]
    /\ UNCHANGED <<page, today, sheet, origin, form, submitted, shown, uncaught, arg, cred_json>>

NextMsg == CallBuild

SpecMsg == InitMsg /\ [][NextMsg]_vars

(***************************************************************************)
(* Properties of build_final_message (SpecMsg)                             *)
(***************************************************************************)
Returned == ret.called /\ ~ret.raised

\* Python's s.count(sub) for a non-empty sub that cannot overlap itself
Count(s, sub) ==
    Cardinality({i \in 0..(Len(s) - Len(sub)) : SubSeq(s, i + 1, i + Len(sub)) = sub})

\* where an atom occurs in a string
AtomIndices(s, a) == {i \in DOMAIN s : s[i] = a}

\* the base64 text of the bytes of the two images (RFC 4648)
KnownBase64(file) ==
    IF file = Logo THEN <<"i", "V", "B", "O", "R", "w", "=", "=">>
    ELSE <<"/", "9", "g", "=">>

DataUriImg(file) == <<ImgOpen>> \o file.type \o <<";base64,">> \o KnownBase64(file)

\* C1: when at least one image is attached, the returned message holds one <img>
\* element per image, each image as a data URI of its type and base64 bytes; all
\* of them stand before the body paragraph when the placement is "Top" and after
\* it when the placement is "Bottom".
C1_ImagesInlineAndPlaced ==
    (Returned /\ ImagesOf(arg.files) # <<>>) =>
        LET msg == ret.msg
            imgs == AtomIndices(msg, ImgOpen)
            images == ImagesOf(arg.files)
        IN  /\ Cardinality(imgs) = Len(images)
            /\ \A k \in DOMAIN images : Contains(msg, DataUriImg(images[k]))
            /\ Cardinality(AtomIndices(msg, POpen)) = 1
            /\ arg.pos = "Top" => \A i \in imgs : \A p \in AtomIndices(msg, POpen) : i < p
            /\ arg.pos = "Bottom" => \A i \in imgs : \A p \in AtomIndices(msg, PClose) : i > p

C1_Witness ==
    /\ Returned
    /\ arg.files = <<Logo, Photo>>
    /\ arg.pos = "Top"
    /\ ret.msg[2] = ImgOpen

\* C2: every non-image attachment is a download link (its Drive link and its
\* name) inside one link block, and that block comes after the body paragraph
\* whatever the placement is; without non-image attachments there is no block.
C2_LinksAfterBody ==
    Returned =>
        LET msg == ret.msg
            docs == NonImagesOf(arg.files)
            blocks == AtomIndices(msg, LinksOpen)
            anchors == AtomIndices(msg, AOpen)
        IN  /\ Cardinality(blocks) = (IF docs # <<>> THEN 1 ELSE 0)
            /\ Cardinality(anchors) = Len(docs)
            /\ \A k \in DOMAIN docs :
                  Contains(msg, <<AOpen>> \o WebViewLink(k)
                                  \o <<"\" target=\"_blank\">Download ", docs[k].name, "</a><br>">>)
            /\ \A b \in blocks :
                  /\ \A p \in AtomIndices(msg, PClose) : p < b
                  /\ \A a \in anchors :
                        /\ b < a
                        /\ ~\E d \in AtomIndices(msg, DivClose) : b < d /\ d < a

C2_Witness ==
    /\ Returned
    /\ arg.files = <<Report, Logo>>
    /\ arg.pos = "Top"
    /\ Cardinality(AtomIndices(ret.msg, AOpen)) = 1

\* how many signature blocks the call has added to the text's own
SignaturesAdded == Count(ret.msg, Signature) - Count(arg.text, Signature)

DateError == <<Message("error", "date")>>
AppendError == <<Message("error", "append")>>

IsPrefix(s, t) == Len(s) <= Len(t) /\ SubSeq(t, 1, Len(s)) = s

DigitValue(c) == CHOOSE d \in 0..9 : ToString(d) = c

IsDigit(c) == \E d \in 0..9 : ToString(d) = c

\* a string of the form YYYY-MM-DD
IsIsoDate(s) ==
    /\ Len(s) = 10
    /\ s[5] = "-" /\ s[8] = "-"
    /\ \A i \in {1, 2, 3, 4, 6, 7, 9, 10} : IsDigit(s[i])
    /\ 10 * DigitValue(s[6]) + DigitValue(s[7]) \in 1..12
    /\ 10 * DigitValue(s[9]) + DigitValue(s[10]) \in 1..31

\* the calendar date a YYYY-MM-DD string names
ParseDate(s) ==
    [year |-> 1000 * DigitValue(s[1]) + 100 * DigitValue(s[2]) + 10 * DigitValue(s[3]) + DigitValue(s[4]),
     month |-> 10 * DigitValue(s[6]) + DigitValue(s[7]),
     day |-> 10 * DigitValue(s[9]) + DigitValue(s[10])]

DateBefore(a, b) ==
    \/ a.year < b.year
    \/ a.year = b.year /\ a.month < b.month
    \/ a.year = b.year /\ a.month = b.month /\ a.day < b.day

\* C4: a submission of the scheduling form whose date is today or earlier shows
\* the date error, makes no API call, leaves Drive and the sheet as they were and
\* stays on the scheduling screen.
C4_DateNotAfterTodayRejected ==
    [][ (SchedulingSubmit /\ submitted'.date <= today) =>
            /\ shown' = DateError
            /\ ~uncaught'
            /\ calls' = <<>>
            /\ drive' = drive
            /\ sheet' = sheet
            /\ page' = "scheduling" ]_vars

C4_Witness ==
    /\ page = "scheduling"
    /\ submitted = [screen |-> "scheduling", date |-> today]
    /\ shown = DateError
    /\ NonImagesOf(form.files) # <<>>
    /\ drive = <<>>
    /\ Appended(sheet) = <<>>

\* C5: every row the scheduling form has appended carries a date that is
\* strictly later than the day of its submission.
C5_ScheduledRowsInFuture ==
    \A i \in DOMAIN origin :
        origin[i].screen = "scheduling" =>
            /\ IsIsoDate(Appended(sheet)[i][4])
            /\ DateBefore(DateOf(origin[i].day), ParseDate(Appended(sheet)[i][4]))

C5_Witness ==
    \E i \in DOMAIN origin :
        /\ origin[i] = [screen |-> "scheduling", day |-> 2]
        /\ ParseDate(Appended(sheet)[i][4]).year = 2026

\* C6: every appended row has exactly five values, in the order subject,
\* recipient group, final message, date as YYYY-MM-DD, status flag, and the
\* status flag is "send"; the date is the date of the form.
C6_RowShape ==
    /\ \A i \in DOMAIN Appended(sheet) :
          LET row == Appended(sheet)[i]
          IN  /\ Len(row) = 5
              /\ row[1] = form.subject
              /\ row[2] = Str(form.recipient)
              /\ Contains(row[3], body_html(form.text))
              /\ IsIsoDate(row[4])
              /\ row[5] = Str("send")
    /\ (shown # <<>> /\ shown[1].level = "success") =>
          ParseDate(sheet[Len(sheet)][4]) = DateOf(submitted.date)

C6_Witness ==
    /\ Len(Appended(sheet)) = 1
    /\ origin[1].screen = "instant"
    /\ shown = <<Message("success", "sent")>>
    /\ form.files = <<Report, Logo, Notes>>

AppendCalls(log) == {i \in DOMAIN log : log[i].api = "values.append"}

\* C7: a run issues at most one row-append call and adds at most one row, and
\* the rows that were in the sheet before the run are an unchanged prefix of
\* the sheet after it.
C7_AppendOnly ==
    [][ /\ IsPrefix(sheet, sheet')
        /\ Len(sheet') <= Len(sheet) + 1
        /\ Cardinality(AppendCalls(calls')) <= 1 ]_vars

C7_Witness ==
    /\ Len(Appended(sheet)) = 1
    /\ shown = AppendError
    /\ Cardinality(AppendCalls(calls)) = 1

\* C8 as stated: no API failure leaves the page handler uncaught, and a run in
\* which an API call failed shows an error message.
C8_AsStated ==
    /\ ~uncaught
    /\ (\E i \in DOMAIN calls : ~calls[i].ok) =>
          \E k \in DOMAIN shown : shown[k].level = "error"

\* the download links of a message: where they start
Anchors(msg) == AtomIndices(msg, AOpen)

\* C9: in a run the Drive calls all come before the append call; the append
\* is called only when every non-image attachment has been created, shared and
\* has returned its link; and every download link in an appended row is the
\* link of a file that is on Drive, shared, under the name the link shows.
C9_UploadsBeforeAppend ==
    /\ \A i, j \in DOMAIN calls :
          (calls[i].api = "values.append" /\ calls[j].api # "values.append") => j < i
    /\ AppendCalls(calls) # {} =>
          /\ \A j \in DOMAIN calls : calls[j].api # "values.append" => calls[j].ok
          /\ Cardinality({j \in DOMAIN calls : calls[j].api = "files.get"})
                = Len(NonImagesOf(form.files))
    /\ \A i \in DOMAIN Appended(sheet) :
          LET msg == Appended(sheet)[i][3]
          IN  /\ Cardinality(Anchors(msg)) = Len(NonImagesOf(form.files))
              /\ \A a \in Anchors(msg) :
                    \E id \in DOMAIN drive :
                        /\ SubSeq(msg, a + 1, a + 3) = WebViewLink(id)
                        /\ drive[id].shared
                        /\ drive[id].name = msg[a + 5]

C9_Witness ==
    /\ form.files = <<Report, Logo, Notes>>
    /\ Len(Appended(sheet)) = 1
    /\ Cardinality(Anchors(Appended(sheet)[1][3])) = 2
    /\ Len(calls) = 7

\* after a failed append: the files the run created are on Drive and shared
UploadsStayAfterFailedAppend ==
    shown = AppendError =>
        /\ Cardinality({i \in DOMAIN calls : calls[i].api = "files.create"})
              = Len(NonImagesOf(form.files))
        /\ \A i \in DOMAIN calls :
              calls[i].api = "files.create" =>
                  /\ calls[i].id \in DOMAIN drive
                  /\ drive[calls[i].id] = [name |-> calls[i].file, shared |-> TRUE]

\* C10: no run removes or un-shares a file that is on Drive, and when the append
\* of a submission fails the files that submission uploaded stay on Drive,
\* shared, although no row was appended.
C10_NoRollback ==
    [][ /\ \A id \in DOMAIN drive : id \in DOMAIN drive' /\ drive'[id] = drive[id]
        /\ UploadsStayAfterFailedAppend'
        /\ shown' = AppendError => sheet' = sheet ]_vars

C10_Witness ==
    /\ shown = AppendError
    /\ Appended(sheet) = <<>>
    /\ Len(drive) = 2
    /\ \A id \in DOMAIN drive : drive[id].shared

\* how often a file name occurs in a list of files
Occurrences(files, name) == Cardinality({i \in DOMAIN files : files[i].name = name})

\* the calls of one API of the log that are about a file of this name
CallsFor(log, api, name) == {i \in DOMAIN log : log[i].api = api /\ log[i].file = name}

\* C11: nothing is retried: a call that raised is the last call of its run, each
\* Drive call is made at most once per non-image attachment and the append is
\* called at most once.
C11_NoRetry ==
    /\ \A i \in DOMAIN calls : ~calls[i].ok => i = Len(calls)
    /\ Cardinality(AppendCalls(calls)) <= 1
    /\ \A api \in {"files.create", "permissions.create", "files.get"} :
          \A f \in UploadedFile :
              Cardinality(CallsFor(calls, api, f.name))
                  <= Occurrences(NonImagesOf(form.files), f.name)

C11_Witness ==
    /\ uncaught
    /\ form.files = <<Report, Logo, Notes>>
    /\ Len(calls) = 4
    /\ calls[4].api = "files.create" /\ ~calls[4].ok

\* C12: a link is fetched only for a file that was created and then shared, in
\* that order, and every link in a returned message is the link of a shared
\* file whose link was fetched.
C12_LinkAfterCreateAndShare ==
    /\ \A k \in DOMAIN calls :
          (calls[k].api = "files.get") =>
              \E i, j \in DOMAIN calls :
                  /\ i < j /\ j < k
                  /\ calls[i].api = "files.create" /\ calls[i].ok /\ calls[i].id = calls[k].id
                  /\ calls[j].api = "permissions.create" /\ calls[j].ok /\ calls[j].id = calls[k].id
    /\ \A j \in DOMAIN calls :
          (calls[j].api = "permissions.create") =>
              \E i \in 1..(j - 1) :
                  calls[i].api = "files.create" /\ calls[i].ok /\ calls[i].id = calls[j].id
    /\ Returned =>
          \A a \in Anchors(ret.msg) :
              \E id \in DOMAIN drive :
                  /\ SubSeq(ret.msg, a + 1, a + 3) = WebViewLink(id)
                  /\ drive[id].shared
                  /\ \E k \in DOMAIN calls :
                        calls[k].api = "files.get" /\ calls[k].ok /\ calls[k].id = id

C12_Witness ==
    /\ Returned
    /\ arg.files = <<Notes, Report>>
    /\ Cardinality(Anchors(ret.msg)) = 2
    /\ \A id \in DOMAIN drive : drive[id].shared

C14_RecipientOneOfFour ==
    \A i \in DOMAIN Appended(sheet) :
        Appended(sheet)[i][2] \in {Str("Employee Master Data"), Str("Zummey"),
                                   Str("SafeBox Energy"), Str("Admin Master Data")}

C14_Witness ==
    /\ Appended(sheet) # <<>>
    /\ Appended(sheet)[1][2] = Str("Zummey")
    /\ Appended(sheet)[1][1] = Str("Outage")

\* C15: a submission of the instant form never shows the date error, whatever
\* its date: it uploads the non-image attachments and, unless a Drive call
\* raised, calls the append; a row it appends carries the submitted date.
C15_InstantHasNoDateCheck ==
    [][ InstantSubmit =>
            /\ shown' # DateError
            /\ NonImagesOf(form.files) # <<>> =>
                  \E k \in DOMAIN calls' : calls'[k].api = "files.create"
            /\ ~uncaught' => Cardinality(AppendCalls(calls')) = 1
            /\ sheet' # sheet =>
                  /\ IsIsoDate(sheet'[Len(sheet')][4])
                  /\ ParseDate(sheet'[Len(sheet')][4]) = DateOf(submitted'.date) ]_vars

C15_Witness ==
    /\ page = "instant"
    /\ submitted.screen = "instant"
    /\ submitted.date < today
    /\ Appended(sheet) # <<>>
    /\ DateBefore(ParseDate(Appended(sheet)[1][4]), DateOf(today))
    /\ origin[1].day = today

\* C16: at most one Sheets handle and at most one Drive handle is ever built, and
\* every call of a run goes through the one handle of its kind, whatever runs
\* came before.
C16_HandlesBuiltOnce ==
    /\ services.sheets <= 1
    /\ services.drive <= 1
    /\ \A i \in DOMAIN calls :
          /\ calls[i].via = 1
          /\ calls[i].via = IF calls[i].api = "values.append" THEN services.sheets
                            ELSE services.drive

C16_Witness ==
    /\ form.files = <<Report>>
    /\ Len(drive) = 2
    /\ Len(calls) = 4
    /\ calls[1].api = "files.create" /\ calls[1].id = 2
    /\ calls[4].api = "values.append"
    /\ services = [sheets |-> 1, drive |-> 1]

\* the attachments of the call that are documents, not pictures
Documents == SelectSeq(arg.files, LAMBDA f : f \in {Report, Notes})

\* the upload calls of a log
Uploads(log) == {i \in DOMAIN log : log[i].api = "files.create"}

FirstFrom(s, i, a) ==
    IF \E j \in i..Len(s) : s[j] = a
    THEN CHOOSE j \in i..Len(s) : s[j] = a /\ \A k \in i..(j - 1) : s[k] # a
    ELSE 0

\* C18: a returned message is, in this order and with nothing in between: the
\* image block if the placement is Top, the body paragraph (once), the image
\* block if the placement is not Top, the link block, the signature; the
\* appended signature is the last element.
C18_PartsInOrder ==
    Returned =>
        LET msg == ret.msg
            pictures == SelectSeq(arg.files, LAMBDA f : f \in {Logo, Photo})
            onTop == pictures # <<>> /\ arg.pos = "Top"
            below == pictures # <<>> /\ arg.pos # "Top"
            signed == \A i \in DOMAIN arg.text : arg.text[i] # BestRegards
            p == IF onTop THEN FirstFrom(msg, 1, DivClose) + 1 ELSE 1
            q == p + Len(arg.text) + 1
            imagesEnd == IF below THEN FirstFrom(msg, q + 1, DivClose) ELSE q
            linksEnd == IF Documents # <<>> THEN FirstFrom(msg, imagesEnd + 1, DivClose)
                        ELSE imagesEnd
        IN  /\ onTop => msg[1] = CenterOpen /\ p > 1
            /\ \A i \in AtomIndices(msg, ImgOpen) :
                  IF onTop THEN i < p ELSE q < i /\ i < imagesEnd
            /\ Cardinality(AtomIndices(msg, ImgOpen)) = Len(pictures)
            /\ SubSeq(msg, p, q) = <<POpen>> \o arg.text \o <<PClose>>
            /\ AtomIndices(msg, POpen) = {p}
            /\ AtomIndices(msg, PClose) = {q}
            /\ below => msg[q + 1] = CenterOpen /\ imagesEnd > q
            /\ AtomIndices(msg, CenterOpen) = IF onTop THEN {1} ELSE IF below THEN {q + 1} ELSE {}
            /\ Documents # <<>> => msg[imagesEnd + 1] = LinksOpen /\ linksEnd > imagesEnd
            /\ AtomIndices(msg, LinksOpen) = IF Documents # <<>> THEN {imagesEnd + 1} ELSE {}
            /\ \A a \in Anchors(msg) : imagesEnd + 1 < a /\ a < linksEnd
            /\ Cardinality(Anchors(msg)) = Len(Documents)
            /\ IF signed
               THEN /\ Len(msg) = linksEnd + Len(Signature)
                    /\ SubSeq(msg, linksEnd + 1, Len(msg)) = Signature
               ELSE Len(msg) = linksEnd

C18_Witness ==
    /\ Returned
    /\ arg.files = <<Report, Logo>>
    /\ arg.pos = "Bottom"
    /\ arg.text = <<"Hello">>
    /\ ret.msg[1] = POpen
    /\ ret.msg[Len(ret.msg)] = DivClose
    /\ Count(ret.msg, Signature) = 1

FormDocuments == SelectSeq(form.files, LAMBDA f : f \in {Report, Notes})

\* C20: when a Drive call raises during the upload of the k-th non-image
\* attachment, the run appends no row and shows no success message, the k-1
\* attachments before it are on Drive, shared, the files that were on Drive stay
\* as they were, and no call is made for an attachment after the k-th.
C20_FailedUploadStopsSubmission ==
    [][ ((InstantSubmit \/ SchedulingSubmit) /\ uncaught') =>
            LET k == Cardinality(Uploads(calls'))
                last == calls'[Len(calls')]
            IN  /\ sheet' = sheet
                /\ \A m \in DOMAIN shown' : shown'[m].level # "success"
                /\ AppendCalls(calls') = {}
                /\ k \in 1..Len(FormDocuments)
                /\ ~last.ok /\ last.file = FormDocuments[k].name
                /\ \A i \in 1..(Len(calls') - 1) : calls'[i].ok
                /\ SubSeq(drive', 1, Len(drive)) = drive
                /\ \A j \in 1..(k - 1) :
                      drive'[Len(drive) + j] = [name |-> FormDocuments[j].name, shared |-> TRUE]
                /\ Len(drive') \in {Len(drive) + k - 1, Len(drive) + k}
                /\ Len(drive') = Len(drive) + k =>
                      drive'[Len(drive) + k].name = FormDocuments[k].name
                /\ Len(calls') <= 3 * k ]_vars

C20_Witness ==
    /\ uncaught
    /\ shown = <<>>
    /\ form.files = <<Report, Logo, Notes>>
    /\ Len(calls) = 5
    /\ calls[5].api = "permissions.create" /\ ~calls[5].ok
    /\ drive = <<[name |-> "report.pdf", shared |-> TRUE], [name |-> "notes.txt", shared |-> FALSE]>>
    /\ Appended(sheet) = <<>>

\* the rows that hold the link of a Drive file
RowsLinking(rows, id) ==
    {i \in DOMAIN rows :
        \E a \in Anchors(rows[i][3]) : SubSeq(rows[i][3], a + 1, a + 3) = WebViewLink(id)}

\* C21: when permissions().create raises for a file just created, the run ends
\* without a link for it: the file is on Drive and not shared, its link was
\* never fetched, no row holds its link and the run appends no row; a file
\* that is not shared is never shared by a later run.
C21_FailedPermissionLeavesPrivateFile ==
    [][ /\ \A id \in DOMAIN drive : ~drive[id].shared => ~drive'[id].shared
        /\ ((InstantSubmit \/ SchedulingSubmit) /\ calls' # <<>>
             /\ calls'[Len(calls')].api = "permissions.create"
             /\ ~calls'[Len(calls')].ok) =>
               LET id == calls'[Len(calls')].id
               IN  /\ uncaught'
                   /\ id = Len(drive') /\ id = Len(drive) + Cardinality(Uploads(calls'))
                   /\ drive'[id] = [name |-> calls'[Len(calls')].file, shared |-> FALSE]
                   /\ \A i \in DOMAIN calls' : calls'[i].api # "files.get" \/ calls'[i].id # id
                   /\ RowsLinking(sheet', id) = {}
                   /\ sheet' = sheet
                   /\ shown' = <<>> ]_vars

C21_Witness ==
    /\ uncaught
    /\ form.files = <<Report>>
    /\ Len(calls) = 2
    /\ calls[2].api = "permissions.create" /\ ~calls[2].ok
    /\ drive = <<[name |-> "report.pdf", shared |-> FALSE]>>
    /\ Appended(sheet) = <<>>

\* C22: a run that calls the append shows exactly one message: the success
\* message when the call returned, the append error when it raised; and a run
\* that shows the success message has appended a row.
C22_OneOutcomeMessage ==
    [][ (InstantSubmit \/ SchedulingSubmit) =>
            /\ AppendCalls(calls') # {} =>
                  /\ Len(shown') = 1
                  /\ \A i \in AppendCalls(calls') :
                        /\ shown'[1].level = "success" <=> calls'[i].ok
                        /\ shown'[1].level = "error" <=> ~calls'[i].ok
                        /\ ~calls'[i].ok => shown' = AppendError
            /\ (\E m \in DOMAIN shown' : shown'[m].level = "success") =>
                  /\ Len(sheet') = Len(sheet) + 1
                  /\ \E i \in AppendCalls(calls') : calls'[i].ok ]_vars

C22_Witness ==
    /\ shown = AppendError
    /\ submitted.screen = "scheduling"
    /\ calls # <<>>
    /\ calls[Len(calls)].api = "values.append" /\ ~calls[Len(calls)].ok
    /\ Appended(sheet) = <<>>

\* the pictures among the attachments of the call
Pictures == SelectSeq(arg.files, LAMBDA f : f \in {Logo, Photo})

\* what the call returns for another placement, every Drive call returning
MsgFor(attachment_position) ==
    build_final_message(arg.text, arg.files, attachment_position, 0, <<>>, 0).msg

\* C23: with images attached and a placement other than "Top" the message starts
\* with the body paragraph and the image block follows it at once, the same
\* message for "Bottom" and for no placement; without images the message is the
\* same for every placement and holds no image block.
C23_PlacementDefaultsToBelow ==
    Returned =>
        LET msg == ret.msg
            q == Len(arg.text) + 2
        IN  /\ (Pictures # <<>> /\ arg.pos # "Top") =>
                  /\ SubSeq(msg, 1, q) = <<POpen>> \o arg.text \o <<PClose>>
                  /\ msg[q + 1] = CenterOpen
                  /\ AtomIndices(msg, CenterOpen) = {q + 1}
                  /\ Cardinality(AtomIndices(msg, ImgOpen)) = Len(Pictures)
                  /\ \A i \in AtomIndices(msg, ImgOpen) : i > q + 1
                  /\ msg = MsgFor("Bottom") /\ msg = MsgFor("None")
                  /\ msg # MsgFor("Top")
            /\ Pictures = <<>> =>
                  /\ \A pos \in Positions : MsgFor(pos) = msg
                  /\ AtomIndices(msg, CenterOpen) = {}
                  /\ AtomIndices(msg, ImgOpen) = {}

C23_Witness ==
    /\ Returned
    /\ arg.files = <<Photo>>
    /\ arg.pos = "None"
    /\ ret.msg[1] = POpen
    /\ Cardinality(AtomIndices(ret.msg, ImgOpen)) = 1

\* the k-th smallest member of a set of indices
Nth(S, k) == CHOOSE i \in S : Cardinality({j \in S : j < i}) = k - 1

\* C24: the k-th upload call is for the k-th non-image attachment, whether or
\* not a later call raises; in a returned message the k-th <img> is the k-th
\* image of the list and the k-th download link names the k-th non-image
\* attachment and is the link of the k-th file created.
C24_AttachmentOrderKept ==
    ret.called =>
        /\ \A k \in 1..Cardinality(Uploads(calls)) :
              /\ k <= Len(Documents)
              /\ calls[Nth(Uploads(calls), k)].file = Documents[k].name
              /\ calls[Nth(Uploads(calls), k)].ok => drive[k].name = Documents[k].name
        /\ ~ret.raised =>
              LET msg == ret.msg
                  imgs == AtomIndices(msg, ImgOpen)
              IN  /\ Cardinality(imgs) = Len(Pictures)
                  /\ \A k \in DOMAIN Pictures :
                        SubSeq(msg, Nth(imgs, k) + 1, Nth(imgs, k) + 3) = Pictures[k].type
                  /\ Cardinality(Anchors(msg)) = Len(Documents)
                  /\ \A k \in DOMAIN Documents :
                        /\ SubSeq(msg, Nth(Anchors(msg), k) + 1, Nth(Anchors(msg), k) + 3)
                              = WebViewLink(k)
                        /\ msg[Nth(Anchors(msg), k) + 5] = Documents[k].name

C24_Witness ==
    /\ Returned
    /\ arg.files = <<Notes, Report>>
    /\ calls[1].file = "notes.txt" /\ calls[4].file = "report.pdf"
    /\ drive[1].name = "notes.txt"
    /\ Nth(AtomIndices(ret.msg, "notes.txt"), 1) < Nth(AtomIndices(ret.msg, "report.pdf"), 1)

\* C25: the page changes only from landing to instant, from landing to
\* scheduling and from either form back to landing, each by its own button, and
\* on both forms the Go Back button is there to be pressed.
C25_NavigationGraph ==
    /\ [](page \in {"instant", "scheduling"} => ENABLED GoBack)
    /\ [][ /\ page' # page =>
                 /\ <<page, page'>> \in {<<"landing", "instant">>, <<"landing", "scheduling">>,
                                         <<"instant", "landing">>, <<"scheduling", "landing">>}
                 /\ OpenInstant \/ OpenScheduling \/ GoBack
           /\ OpenInstant => page = "landing" /\ page' = "instant"
           /\ OpenScheduling => page = "landing" /\ page' = "scheduling"
           /\ GoBack => page \in {"instant", "scheduling"} /\ page' = "landing" ]_vars

C25_Witness ==
    /\ page = "landing"
    /\ Appended(sheet) # <<>>
    /\ origin[1].screen = "scheduling"
    /\ calls = <<>>

\* C26: a submission leaves the page as it is, whatever its outcome, and the
\* page is the screen of the submitted form; a navigation step makes no API
\* call, builds no handle and leaves Drive and the sheet as they are.
C26_SubmitKeepsPageNavigateKeepsData ==
    [][ /\ (InstantSubmit \/ SchedulingSubmit) =>
              /\ page' = page
              /\ page' = submitted'.screen
        /\ (OpenInstant \/ OpenScheduling \/ GoBack) =>
              /\ calls' = <<>>
              /\ drive' = drive
              /\ sheet' = sheet
              /\ services' = services
              /\ shown' = <<>> ]_vars

C26_Witness ==
    /\ page = "instant"
    /\ submitted.screen = "instant"
    /\ shown = <<Message("success", "sent")>>
    /\ Appended(sheet) # <<>>
    /\ drive # <<>>

\* the variable is not set or is the empty string
CredentialsAbsent == cred_json \in {[set |-> FALSE, value |-> <<>>], [set |-> TRUE, value |-> <<>>]}

CredentialsError == <<Message("error", "credentials")>>

\* C27: in a process without credentials every run of the script is a stopped
\* run that shows the credentials error; no screen is rendered, no form is
\* submitted, no handle is built, no API call is made, nothing is on Drive and
\* no row is appended.
C27_NoCredentialsNoScreen ==
    /\ [](CredentialsAbsent =>
             /\ Rendered = <<>>
             /\ shown \in {<<>>, CredentialsError}
             /\ submitted = NotSubmitted
             /\ services = [sheets |-> 0, drive |-> 0]
             /\ calls = <<>>
             /\ drive = <<>>
             /\ Appended(sheet) = <<>>
             /\ ~ENABLED (OpenInstant \/ OpenScheduling \/ GoBack \/ InstantSubmit
                          \/ SchedulingSubmit))
    /\ [][ /\ CredentialsAbsent => StoppedRun \/ NextDay
           /\ StoppedRun => CredentialsAbsent /\ shown' = CredentialsError /\ page' = page
           /\ cred_json' = cred_json ]_vars

C27_Witness ==
    /\ cred_json = [set |-> TRUE, value |-> <<>>]
    /\ shown = CredentialsError
    /\ today = 2
    /\ services = [sheets |-> 0, drive |-> 0]

====
